---- MODULE Spec2Model ----
(***************************************************************************)
(* Billboard (src/src/framebuffer/Billboard.cpp): a 2D scene-graph node    *)
(* that draws an image on a quad through a colour-correction shader.       *)
(* The constructor and draw() are straight-line sequences of engine calls; *)
(* the model records every engine call the two functions issue, the state  *)
(* those calls leave in the objects the Billboard owns and in the GL       *)
(* context, and the render state in effect at each mesh draw.              *)
(***************************************************************************)
EXTENDS Integers, Sequences, FiniteSets, TLC

(* ------------------------------ bounds -------------------------------- *)
MaxDim == 4          \* image width and height range over 0..MaxDim
MaxDraws == 2        \* draw() invocations per run

(* ----------------------------- pointers ------------------------------- *)
NULL == 0
ImageAddr == 1       \* address of the caller's Trade::ImageData2D
BufferAddr == 1      \* address of the caller's colour-correction Buffer
ParentAddr == 1      \* address of the parent Object2D

(* --------------------- GLfloat (IEEE-754 binary32) -------------------- *)
(* A finite non-zero float is m * 2^e with 2^23 <= m < 2^24.             *)
MantissaBits == 24

RECURSIVE Pow2(_)
Pow2(n) == IF n = 0 THEN 1 ELSE 2 * Pow2(n - 1)

FZero == [cls |-> "zero", m |-> 0, e |-> 0]
FInf == [cls |-> "inf", m |-> 0, e |-> 0]
FNaN == [cls |-> "nan", m |-> 0, e |-> 0]

RECURSIVE Normalize(_, _)
Normalize(m, e) ==
    IF m < Pow2(MantissaBits - 1) THEN Normalize(2 * m, e - 1)
    ELSE [cls |-> "num", m |-> m, e |-> e]

\* GLfloat(n) for a GLsizei 0 <= n < 2^24: exact.
IntToFloat(n) == IF n = 0 THEN FZero ELSE Normalize(n, 0)

FOne == IntToFloat(1)

\* Restoring binary long division: q, r with n * 2^bits = q * d + r.
RECURSIVE LongDiv(_, _, _, _)
LongDiv(q, r, d, bits) ==
    IF bits = 0 THEN [q |-> q, r |-> r]
    ELSE IF 2 * r >= d THEN LongDiv(2 * q + 1, 2 * r - d, d, bits - 1)
         ELSE LongDiv(2 * q, 2 * r, d, bits - 1)

\* Round to nearest, ties to even, of (q + r/d) * 2^e.
RoundNearestEven(q, r, d, e) ==
    LET up == (2 * r > d) \/ (2 * r = d /\ q % 2 = 1)
        m == IF up THEN q + 1 ELSE q
    IN  IF m = Pow2(MantissaBits) THEN [cls |-> "num", m |-> m \div 2, e |-> e + 1]
        ELSE [cls |-> "num", m |-> m, e |-> e]

\* operator/(float, float) on non-negative operands.
FloatDiv(a, b) ==
    IF a.cls = "nan" \/ b.cls = "nan" THEN FNaN
    ELSE IF b.cls = "zero" THEN (IF a.cls = "zero" THEN FNaN ELSE FInf)
    ELSE IF a.cls = "zero" THEN FZero
    ELSE IF a.m >= b.m
         THEN LET qr == LongDiv(1, a.m - b.m, b.m, MantissaBits - 1)
              IN  RoundNearestEven(qr.q, qr.r, b.m, a.e - b.e - (MantissaBits - 1))
         ELSE LET qr == LongDiv(1, 2 * a.m - b.m, b.m, MantissaBits - 1)
              IN  RoundNearestEven(qr.q, qr.r, b.m, a.e - b.e - MantissaBits)

\* Vector2(s): the same factor on both axes.
UniformScale(s) == <<s, s>>

\* Vector2::yScale(s) = (1, s)
yScale(s) == <<FOne, s>>

(* ----------------------------- Matrix3 -------------------------------- *)
(* Matrices are tuples of rows; the entries used are small integers,      *)
(* which binary32 represents and multiplies exactly.                      *)
MatMul(A, B) ==
    [i \in 1..3 |-> [j \in 1..3 |->
        A[i][1] * B[1][j] + A[i][2] * B[2][j] + A[i][3] * B[3][j]]]

\* The Camera2D the caller passes to draw(), by address, and its
\* projectionMatrix(); a read through any other address yields other bytes.
CameraAddr == 1
ProjectionOf(addr) ==
    IF addr = CameraAddr THEN <<<<2, 0, 0>>, <<0, 3, 0>>, <<0, 0, 1>>>>
    ELSE <<<<1, 0, 0>>, <<0, 2, 0>>, <<0, 0, 1>>>>

\* Absolute transformations the scene graph may hand to draw().
Transformations ==
    { <<<<1, 0, 1>>, <<0, 1, 0>>, <<0, 0, 1>>>>,      \* translation by (1, 0)
      <<<<0, -1, 0>>, <<1, 0, 0>>, <<0, 0, 1>>>> }    \* rotation by 90 degrees

ZeroMatrix == <<<<0, 0, 0>>, <<0, 0, 0>>, <<0, 0, 0>>>>

(* ------------------------- external objects --------------------------- *)
Sizes == (0..MaxDim) \X (0..MaxDim)
Contents == {"original", "modified"}     \* pixel contents of the image
Images == [size : Sizes, data : Contents]

(* ------------------------------- state -------------------------------- *)
VARIABLES
    image,                    \* the caller's Trade::ImageData2D
    colorCorrectionBuffer,    \* the caller's Buffer of correction factors
    phase,                    \* "none", "constructed" or "crashed"
    node,                     \* Object2D base: parent and applied transformations
    mesh,                     \* Billboard::mesh
    texture,                  \* Billboard::texture
    colorCorrectionTexture,   \* Billboard::colorCorrectionTexture
    gl,                       \* GL context: program in use, its uniform, texture layers
    calls,                    \* engine calls issued by Billboard, in order
    frames,                   \* render state observed by each Mesh::draw()
    invocations               \* constructor / draw() invocations and their arguments

vars == <<image, colorCorrectionBuffer, phase, node, mesh, texture,
          colorCorrectionTexture, gl, calls, frames, invocations>>

EmptyLevel == [format |-> "none", size |-> <<0, 0>>, data |-> "none"]

Call(fn, line, args) == [fn |-> fn, line |-> line, args |-> args]

(* ------------------------ Billboard::Billboard ------------------------ *)
CtorLines == <<24, 27, 28, 29, 31, 32, 33, 34, 36, 38>>

\* GLfloat(image->size()[1]/image->size()[0]): the quotient taken in GLsizei.
AspectRatioTruncated(size) ==
    IF size[1] = 0 THEN FloatDiv(IntToFloat(size[2]), FZero)
    ELSE IntToFloat(size[2] \div size[1])

\* GLfloat(image->size()[1])/image->size()[0]
AspectRatio(size) == FloatDiv(IntToFloat(size[2]), IntToFloat(size[1]))

\* Object2D(parent), mesh(Mesh::Primitive::TriangleStrip, 4)
MemberInit(s, a) ==
    [s EXCEPT !.node = [parent |-> a.parent, transformations |-> <<>>],
              !.mesh = [primitive |-> "TriangleStrip", vertexCount |-> 4,
                        buffers |-> <<>>, attributes |-> {}],
              !.calls = @ \o <<Call("Object2D::Object2D", 24, <<a.parent>>),
                               Call("Mesh::Mesh", 24, <<"TriangleStrip", 4>>)>>]

\* Buffer* buffer = mesh.addBuffer(Mesh::BufferType::NonInterleaved)
AddBuffer(s, a) ==
    [s EXCEPT !.mesh.buffers = Append(@, [type |-> "NonInterleaved",
                                          data |-> "none", usage |-> "none"]),
              !.calls = Append(@, Call("Mesh::addBuffer", 27, <<"NonInterleaved">>))]

\* colorCorrectionBuffer->setData(...): the positions land in the caller's buffer.
SetPositionsIntoCorrectionBuffer(s, a) ==
    [s EXCEPT !.colorCorrectionBuffer.data = "Square::positions(0)",
              !.calls = Append(@, Call("Buffer::setData", 28,
                                       <<"Square::positions(0)", "StaticDraw">>))]

\* buffer->setData(*square.positions(0), Buffer::Usage::StaticDraw)
SetPositions(s, a) ==
    LET buffer == Len(s.mesh.buffers)
    IN  [s EXCEPT !.mesh.buffers[buffer].data = "Square::positions(0)",
                  !.mesh.buffers[buffer].usage = "StaticDraw",
                  !.calls = Append(@, Call("Buffer::setData", 28,
                                           <<"Square::positions(0)", "StaticDraw">>))]

\* The attribute binding left out.
BindAttributeOmitted(s, a) == s

\* mesh.bindAttribute<ColorCorrectionShader::Position>(buffer)
BindAttribute(s, a) ==
    LET buffer == Len(s.mesh.buffers)
    IN  [s EXCEPT !.mesh.attributes = @ \cup {[attribute |-> "Position", buffer |-> buffer]},
                  !.calls = Append(@, Call("Mesh::bindAttribute", 29, <<"Position", buffer>>))]

\* texture.setWrapping({ClampToBorder, ClampToBorder})
SetWrapping(s, a) ==
    [s EXCEPT !.texture.wrapping = <<"ClampToBorder", "ClampToBorder">>,
              !.calls = Append(@, Call("Texture::setWrapping", 31,
                                       <<"ClampToBorder", "ClampToBorder">>))]

\* texture.setMagnificationFilter(LinearInterpolation)
SetMagnificationFilter(s, a) ==
    [s EXCEPT !.texture.magnificationFilter = "LinearInterpolation",
              !.calls = Append(@, Call("Texture::setMagnificationFilter", 32,
                                       <<"LinearInterpolation">>))]

\* texture.setMinificationFilter(LinearInterpolation)
SetMinificationFilter(s, a) ==
    [s EXCEPT !.texture.minificationFilter = "LinearInterpolation",
              !.calls = Append(@, Call("Texture::setMinificationFilter", 33,
                                       <<"LinearInterpolation">>))]

\* texture.setData(0, AbstractTexture::Format::RGBA, image): the engine
\* copies the image's pixels into mip level 0.
SetTextureData(s, a) ==
    [s EXCEPT !.texture.level0 = [format |-> "RGBA", size |-> a.imageObj.size,
                                  data |-> a.imageObj.data],
              !.calls = Append(@, Call("Texture::setData", 34, <<0, "RGBA", a.image>>))]

\* colorCorrectionTexture.setBuffer(Red|Float, colorCorrectionBuffer)
SetBuffer(s, a) ==
    [s EXCEPT !.colorCorrectionTexture = [format |-> "Red|Float", attached |-> TRUE,
                                          buffer |-> a.colorCorrectionBuffer],
              !.calls = Append(@, Call("BufferedTexture::setBuffer", 36,
                                       <<"Red|Float", a.colorCorrectionBuffer>>))]

\* The scaling guarded by a check of the image width.
ScaleNodeChecked(s, a) ==
    IF a.imageObj.size[1] = 0 THEN s
    ELSE LET vector == yScale(AspectRatio(a.imageObj.size))
         IN  [s EXCEPT !.node.transformations = Append(@, [kind |-> "scale", vector |-> vector]),
                       !.calls = Append(@, Call("Object2D::scale", 38, <<vector>>))]

\* scale(Vector2::yScale(GLfloat(image->size()[1])/image->size()[0]))
ScaleNode(s, a) ==
    LET vector == yScale(AspectRatio(a.imageObj.size))
    IN  [s EXCEPT !.node.transformations = Append(@, [kind |-> "scale", vector |-> vector]),
                  !.calls = Append(@, Call("Object2D::scale", 38, <<vector>>))]

\* A statement of the constructor, by source line.
CtorStep(line, s, a) ==
    CASE line = 24 -> MemberInit(s, a)
      [] line = 27 -> AddBuffer(s, a)
      [] line = 28 -> SetPositions(s, a)
      [] line = 29 -> BindAttribute(s, a)
      [] line = 31 -> SetWrapping(s, a)
      [] line = 32 -> SetMagnificationFilter(s, a)
      [] line = 33 -> SetMinificationFilter(s, a)
      [] line = 34 -> SetTextureData(s, a)
      [] line = 36 -> SetBuffer(s, a)
      [] line = 38 -> ScaleNode(s, a)

(* --------------------------- Billboard::draw -------------------------- *)
DrawLines == <<42, 43, 44, 45, 47>>

\* The shader activation left out.
UseShaderOmitted(s, a) == s

\* shader.use()
UseShader(s, a) ==
    [s EXCEPT !.gl.program = "ColorCorrectionShader",
              !.calls = Append(@, Call("ColorCorrectionShader::use", 42, <<>>))]

\* transformationMatrix*camera->projectionMatrix()
ProjectionTransformation(a) == MatMul(a.transformationMatrix, a.projection)

\* camera->projectionMatrix()*transformationMatrix
TransformationProjection(a) == MatMul(a.projection, a.transformationMatrix)

\* shader.setMatrixUniform(camera->projectionMatrix()*transformationMatrix)
SetMatrixUniform(s, a) ==
    LET matrix == TransformationProjection(a)
    IN  [s EXCEPT !.gl.matrixUniform = matrix,
                  !.calls = Append(@, Call("ColorCorrectionShader::setMatrixUniform", 43,
                                           <<matrix>>))]

\* The image uploaded again on every draw.
BindTextureReupload(s, a) ==
    [s EXCEPT !.texture.level0 = [format |-> "RGBA", size |-> s.image.size,
                                  data |-> s.image.data],
              !.gl.layers.TextureLayer = "texture",
              !.calls = @ \o <<Call("Texture::setData", 44, <<0, "RGBA", ImageAddr>>),
                               Call("Texture::bind", 44, <<"TextureLayer">>)>>]

\* texture.bind(ColorCorrectionShader::TextureLayer)
BindTexture(s, a) ==
    [s EXCEPT !.gl.layers.TextureLayer = "texture",
              !.calls = Append(@, Call("Texture::bind", 44, <<"TextureLayer">>))]

\* The buffer attached again on every draw.
BindColorCorrectionTextureReattach(s, a) ==
    [s EXCEPT !.gl.layers.ColorCorrectionTextureLayer = "colorCorrectionTexture",
              !.calls = @ \o <<Call("BufferedTexture::setBuffer", 45,
                                    <<"Red|Float", s.colorCorrectionTexture.buffer>>),
                               Call("BufferedTexture::bind", 45,
                                    <<"ColorCorrectionTextureLayer">>)>>]

\* colorCorrectionTexture.bind(ColorCorrectionShader::ColorCorrectionTextureLayer)
BindColorCorrectionTexture(s, a) ==
    [s EXCEPT !.gl.layers.ColorCorrectionTextureLayer = "colorCorrectionTexture",
              !.calls = Append(@, Call("BufferedTexture::bind", 45,
                                       <<"ColorCorrectionTextureLayer">>))]

\* What a draw call samples: the GL state and the objects bound into it.
Frame(s) ==
    [gl |-> s.gl, mesh |-> s.mesh, texture |-> s.texture,
     colorCorrectionTexture |-> s.colorCorrectionTexture,
     curve |-> IF s.colorCorrectionTexture.buffer = BufferAddr
               THEN s.colorCorrectionBuffer.data ELSE "none"]

\* The aspect-ratio scaling applied on every draw.
MeshDrawRescaling(s, a) ==
    [s EXCEPT !.node.transformations =
                  Append(@, [kind |-> "scale",
                             vector |-> yScale(AspectRatio(s.texture.level0.size))]),
              !.frames = Append(@, Frame(s)),
              !.calls = Append(@, Call("Mesh::draw", 47, <<>>))]

\* mesh.draw()
MeshDraw(s, a) ==
    [s EXCEPT !.frames = Append(@, Frame(s)),
              !.calls = Append(@, Call("Mesh::draw", 47, <<>>))]

\* A statement of draw(), by source line.
DrawStep(line, s, a) ==
    CASE line = 42 -> UseShader(s, a)
      [] line = 43 -> SetMatrixUniform(s, a)
      [] line = 44 -> BindTexture(s, a)
      [] line = 45 -> BindColorCorrectionTexture(s, a)
      [] line = 47 -> MeshDraw(s, a)

(* ------------------- running a function body -------------------------- *)
\* Lines that dereference a pointer argument.  At 34 and 36 the engine
\* dereferences the pointer it is handed; at 38 and 43 Billboard does, while
\* evaluating the call's argument.
Dereferences(line, a) ==
    CASE line = 34 -> a.image
      [] line = 36 -> a.colorCorrectionBuffer
      [] line = 38 -> a.image
      [] line = 43 -> a.camera
      [] OTHER -> 1

InEngine(line) == line \in {34, 36}

\* A null dereference is undefined: the process may die there.
MayCrashAt(line, a) == Dereferences(line, a) = NULL

Step(line, s, a) == IF line <= 38 THEN CtorStep(line, s, a) ELSE DrawStep(line, s, a)

RECURSIVE Run(_, _, _)
Run(s, lines, a) ==
    IF lines = <<>> THEN [s EXCEPT !.returned = TRUE]
    ELSE LET line == Head(lines)
         IN  IF line = a.crashAt
             THEN IF InEngine(line)
                  THEN [s EXCEPT !.calls = Step(line, s, a).calls]
                  ELSE s
             ELSE Run(Step(line, s, a), Tail(lines), a)

State ==
    [image |-> image, colorCorrectionBuffer |-> colorCorrectionBuffer,
     node |-> node, mesh |-> mesh, texture |-> texture,
     colorCorrectionTexture |-> colorCorrectionTexture, gl |-> gl,
     calls |-> calls, frames |-> frames, returned |-> FALSE]

Commit(s, op, a) ==
    /\ image' = s.image
    /\ colorCorrectionBuffer' = s.colorCorrectionBuffer
    /\ node' = s.node
    /\ mesh' = s.mesh
    /\ texture' = s.texture
    /\ colorCorrectionTexture' = s.colorCorrectionTexture
    /\ gl' = s.gl
    /\ calls' = s.calls
    /\ frames' = s.frames
    /\ phase' = IF s.returned THEN "constructed" ELSE "crashed"
    /\ invocations' = Append(invocations,
          [op |-> op, args |-> a, from |-> Len(calls) + 1, to |-> Len(s.calls),
           pixels |-> image.data, returned |-> s.returned])

CrashChoices(lines, a) ==
    {0} \cup {lines[i] : i \in {j \in 1..Len(lines) : MayCrashAt(lines[j], a)}}

\* What reading through a null pointer may yield.
GarbageImages == {[size |-> <<MaxDim, 1>>, data |-> "garbage"]}
GarbageProjections == {ProjectionOf(NULL)}

(* ------------------------------ actions ------------------------------- *)
Init ==
    /\ image \in {i \in Images : i.data = "original"}
    /\ colorCorrectionBuffer = [data |-> "factors"]
    /\ phase = "none"
    /\ node = [parent |-> NULL, transformations |-> <<>>]
    /\ mesh = [primitive |-> "none", vertexCount |-> 0, buffers |-> <<>>, attributes |-> {}]
    /\ texture = [wrapping |-> <<"Repeat", "Repeat">>, magnificationFilter |-> "none",
                  minificationFilter |-> "none", level0 |-> EmptyLevel]
    /\ colorCorrectionTexture = [format |-> "none", attached |-> FALSE, buffer |-> NULL]
    /\ gl = [program |-> "none", matrixUniform |-> ZeroMatrix,
             layers |-> [TextureLayer |-> "none", ColorCorrectionTextureLayer |-> "none"]]
    /\ calls = <<>>
    /\ frames = <<>>
    /\ invocations = <<>>

\* new Billboard(image, colorCorrectionBuffer, parent)
Construct ==
    /\ phase = "none"
    /\ \E imagePtr \in {NULL, ImageAddr}, bufferPtr \in {NULL, BufferAddr} :
       \E imageObj \in (IF imagePtr = NULL THEN GarbageImages ELSE {image}) :
          LET ptrs == [image |-> imagePtr, colorCorrectionBuffer |-> bufferPtr,
                       parent |-> ParentAddr, imageObj |-> imageObj, crashAt |-> 0]
          IN  \E crashAt \in CrashChoices(CtorLines, ptrs) :
                 LET a == [ptrs EXCEPT !.crashAt = crashAt]
                 IN  Commit(Run(State, CtorLines, a), "Billboard", a)

DrawCount == Cardinality({i \in 1..Len(invocations) : invocations[i].op = "draw"})

\* billboard->draw(transformationMatrix, camera)
Draw ==
    /\ phase = "constructed"
    /\ DrawCount < MaxDraws
    /\ \E transformationMatrix \in Transformations, camera \in {NULL, CameraAddr} :
       \E projection \in (IF camera = NULL THEN GarbageProjections
                          ELSE {ProjectionOf(camera)}) :
          LET args == [transformationMatrix |-> transformationMatrix, camera |-> camera,
                       projection |-> projection, crashAt |-> 0]
          IN  \E crashAt \in CrashChoices(DrawLines, args) :
                 LET a == [args EXCEPT !.crashAt = crashAt]
                 IN  Commit(Run(State, DrawLines, a), "draw", a)

\* The application changes the pixels of the image it still owns.
ImageChanged ==
    /\ phase = "constructed"
    /\ \E d \in Contents \ {image.data} : image' = [image EXCEPT !.data = d]
    /\ UNCHANGED <<colorCorrectionBuffer, phase, node, mesh, texture,
                   colorCorrectionTexture, gl, calls, frames, invocations>>

\* Another drawable renders between two frames of the Billboard.
OtherRendering ==
    /\ phase = "constructed"
    /\ gl.program # "other"
    /\ gl' = [gl EXCEPT !.program = "other",
                        !.layers = [TextureLayer |-> "other",
                                    ColorCorrectionTextureLayer |-> "other"]]
    /\ UNCHANGED <<image, colorCorrectionBuffer, phase, node, mesh, texture,
                   colorCorrectionTexture, calls, frames, invocations>>

Next == Construct \/ Draw \/ ImageChanged \/ OtherRendering

Spec == Init /\ [][Next]_vars

(* ============================ properties ============================== *)
CtorReturned == Len(invocations) >= 1 /\ invocations[1].returned
Ctor == invocations[1]
CallsOf(inv) == inv.from .. inv.to
Count(fn) == Cardinality({i \in 1..Len(calls) : calls[i].fn = fn})
ReturnedDraws == {k \in 1..Len(invocations) :
                    invocations[k].op = "draw" /\ invocations[k].returned}

\* C1: for an image of width w > 0 and height h > 0 the constructor scales
\* the node's y axis by h/w taken in GLfloat: the binary32 value nearest to
\* the real quotient (h/w itself whenever binary32 holds it, so 4x2 gives
\* 1/2), never the truncated integer quotient.
C1_VerticalScaleIsRatio ==
    (CtorReturned /\ Ctor.args.image # NULL
        /\ Ctor.args.imageObj.size[1] > 0 /\ Ctor.args.imageObj.size[2] > 0) =>
    LET w == Ctor.args.imageObj.size[1]
        h == Ctor.args.imageObj.size[2]
        y == calls[Ctor.to].args[1][2]
        k == -y.e
        d == y.m * w - h * Pow2(k)
    IN  /\ calls[Ctor.to].fn = "Object2D::scale"
        /\ node.transformations[1].vector[2] = y
        /\ y.cls = "num" /\ y.m >= 8388608 /\ y.m < 16777216 /\ k > 0
        /\ 2 * d <= w /\ -2 * d <= w
        /\ ((h * Pow2(k)) % w = 0 => d = 0)
        /\ (h % w # 0 => y # IntToFloat(h \div w))

C1_Witness ==
    /\ CtorReturned /\ Ctor.args.image # NULL
    /\ Ctor.args.imageObj.size = <<4, 2>>
    /\ node.transformations[1].vector[2].m * 2 = Pow2(-node.transformations[1].vector[2].e)

\* Index of the first call of fn within a call range, 0 if there is none.
FirstIn(fn, range) ==
    LET hits == {i \in range : calls[i].fn = fn}
    IN  IF hits = {} THEN 0 ELSE CHOOSE i \in hits : \A j \in hits : i <= j

\* C2: no Mesh::draw is issued before the quad's vertex buffer has been
\* filled and bound as the position attribute, the colour texture has been
\* given the image, and the colour-correction texture has been attached to
\* its buffer; the mesh and textures every draw samples are in that state.
C2_SetupBeforeFirstDraw ==
    /\ \A i \in 1..Len(calls) : calls[i].fn = "Mesh::draw" =>
          /\ \E j \in 1..(i - 1), k \in 1..(i - 1) :
                /\ j < k
                /\ calls[j].fn = "Buffer::setData"
                /\ calls[k].fn = "Mesh::bindAttribute" /\ calls[k].args[1] = "Position"
          /\ \E j \in 1..(i - 1) :
                calls[j].fn = "Texture::setData" /\ calls[j].args[3] = Ctor.args.image
          /\ \E j \in 1..(i - 1) :
                /\ calls[j].fn = "BufferedTexture::setBuffer"
                /\ calls[j].args[2] = Ctor.args.colorCorrectionBuffer
    /\ \A f \in 1..Len(frames) :
          /\ \E b \in frames[f].mesh.attributes :
                /\ b.attribute = "Position"
                /\ frames[f].mesh.buffers[b.buffer].data = "Square::positions(0)"
          /\ frames[f].texture.level0.format = "RGBA"
          /\ frames[f].texture.level0.size = Ctor.args.imageObj.size
          /\ frames[f].colorCorrectionTexture.attached
          /\ frames[f].colorCorrectionTexture.buffer = Ctor.args.colorCorrectionBuffer

C2_Witness ==
    /\ Len(frames) >= 1
    /\ Ctor.args.image # NULL /\ Ctor.args.colorCorrectionBuffer # NULL
    /\ frames[1].texture.level0.data = Ctor.args.imageObj.data
    /\ frames[1].curve = colorCorrectionBuffer.data

\* C3: every draw() that runs to its end issues exactly one Mesh::draw, and
\* within that same invocation, before the Mesh::draw, it activates the
\* shader, sets the matrix uniform and binds the colour texture and the
\* colour-correction texture, so the draw samples exactly those bindings.
C3_DrawBindsThenDrawsOnce ==
    /\ \A k \in ReturnedDraws :
          LET r == CallsOf(invocations[k])
              d == FirstIn("Mesh::draw", r)
          IN  /\ Cardinality({i \in r : calls[i].fn = "Mesh::draw"}) = 1
              /\ \A fn \in {"ColorCorrectionShader::use",
                            "ColorCorrectionShader::setMatrixUniform",
                            "Texture::bind", "BufferedTexture::bind"} :
                    FirstIn(fn, r) # 0 /\ FirstIn(fn, r) < d
              /\ calls[FirstIn("Texture::bind", r)].args[1] = "TextureLayer"
              /\ calls[FirstIn("BufferedTexture::bind", r)].args[1]
                    = "ColorCorrectionTextureLayer"
    /\ Len(frames) = Cardinality(ReturnedDraws)
    /\ Count("Mesh::draw") = Cardinality(ReturnedDraws)
    /\ \A f \in 1..Len(frames) :
          /\ frames[f].gl.program = "ColorCorrectionShader"
          /\ frames[f].gl.layers.TextureLayer = "texture"
          /\ frames[f].gl.layers.ColorCorrectionTextureLayer = "colorCorrectionTexture"

C3_Witness ==
    /\ Cardinality(ReturnedDraws) >= 2
    /\ Len(frames) >= 2
    /\ gl.program = "ColorCorrectionShader"
    /\ calls[Len(calls)].fn = "Mesh::draw"

SetupCalls == {"Mesh::addBuffer", "Buffer::setData", "Mesh::bindAttribute",
               "Texture::setWrapping", "Texture::setMagnificationFilter",
               "Texture::setMinificationFilter", "Texture::setData",
               "BufferedTexture::setBuffer", "Object2D::scale"}

\* C4: after a completed construction and any number of draws, the vertex
\* buffer upload, the wrapping and filter configuration, the texture upload,
\* the colour-correction buffer attachment and the node scaling have each
\* been performed exactly once, all by the constructor; draw() performs none.
C4_SetupExactlyOnce ==
    CtorReturned =>
       /\ \A fn \in SetupCalls :
             Count(fn) = 1 /\ FirstIn(fn, CallsOf(Ctor)) # 0
       /\ \A k \in 2..Len(invocations) :
             \A i \in CallsOf(invocations[k]) : calls[i].fn \notin SetupCalls
       /\ Len(node.transformations) = 1
       /\ Len(mesh.buffers) = 1

C4_Witness ==
    /\ CtorReturned
    /\ Cardinality(ReturnedDraws) >= 2
    /\ Count("Texture::setData") = 1
    /\ Count("Object2D::scale") = 1

\* C5: the image's pixels are read exactly once, by the constructor's
\* Texture::setData; draw() never reads the image, so every draw shows the
\* pixels the image had at construction, whatever the image holds by then.
C5_ImageConsumedOnce ==
    CtorReturned =>
       /\ Cardinality({i \in 1..Len(calls) :
             calls[i].fn = "Texture::setData"}) = 1
       /\ FirstIn("Texture::setData", CallsOf(Ctor)) # 0
       /\ \A f \in 1..Len(frames) :
             /\ frames[f].texture.level0.data = Ctor.args.imageObj.data
             /\ frames[f].texture.level0.size = Ctor.args.imageObj.size
       /\ texture.level0.data = Ctor.args.imageObj.data

C5_Witness ==
    /\ CtorReturned /\ Ctor.args.image # NULL
    /\ \E k \in ReturnedDraws : invocations[k].pixels # Ctor.pixels
    /\ frames[Len(frames)].texture.level0.data = Ctor.pixels

\* C6: the colour-correction buffer is read-only for Billboard: no step of
\* the constructor or of draw() changes its contents; the constructor only
\* attaches the buffer it was handed to the colour-correction texture.
C6_CorrectionBufferReadOnly ==
    [][/\ colorCorrectionBuffer' = colorCorrectionBuffer
       /\ (phase' = "constructed" =>
             /\ colorCorrectionTexture'.buffer = invocations'[1].args.colorCorrectionBuffer
             /\ \A i \in 1..Len(calls') :
                   calls'[i].fn = "Buffer::setData" =>
                      calls'[i].args[1] = "Square::positions(0)")]_vars

C6_Witness ==
    /\ CtorReturned /\ Ctor.args.colorCorrectionBuffer = BufferAddr
    /\ colorCorrectionTexture.buffer = BufferAddr
    /\ Cardinality(ReturnedDraws) >= 1
    /\ frames[Len(frames)].curve = colorCorrectionBuffer.data

CtorCallNames ==
    <<"Object2D::Object2D", "Mesh::Mesh", "Mesh::addBuffer", "Buffer::setData",
      "Mesh::bindAttribute", "Texture::setWrapping", "Texture::setMagnificationFilter",
      "Texture::setMinificationFilter", "Texture::setData",
      "BufferedTexture::setBuffer", "Object2D::scale">>

DrawCallNames ==
    <<"ColorCorrectionShader::use", "ColorCorrectionShader::setMatrixUniform",
      "Texture::bind", "BufferedTexture::bind", "Mesh::draw">>

\* C7: Billboard validates nothing and has no error outcome: whatever the
\* arguments (an image of width 0, a null image, buffer or camera), an
\* invocation issues the one fixed sequence of calls with its arguments
\* passed through as given; it returns only after the whole sequence, and
\* stops short only where the process dies on a null dereference.
C7_NoValidation ==
    /\ phase \in {"none", "constructed", "crashed"}
    /\ \A k \in 1..Len(invocations) :
          LET inv == invocations[k]
              names == IF inv.op = "Billboard" THEN CtorCallNames ELSE DrawCallNames
              n == inv.to - inv.from + 1
          IN  /\ n <= Len(names)
              /\ \A i \in 1..n : calls[inv.from + i - 1].fn = names[i]
              /\ inv.returned => n = Len(names)
              /\ ~inv.returned =>
                    \/ n >= 1 /\ names[n] = "Texture::setData" /\ inv.args.image = NULL
                    \/ n >= 1 /\ names[n] = "BufferedTexture::setBuffer"
                          /\ inv.args.colorCorrectionBuffer = NULL
                    \/ n < Len(names) /\ names[n + 1] = "Object2D::scale"
                          /\ inv.args.image = NULL
                    \/ n < Len(names)
                          /\ names[n + 1] = "ColorCorrectionShader::setMatrixUniform"
                          /\ inv.args.camera = NULL
              /\ \A i \in CallsOf(inv) :
                    /\ calls[i].fn = "Texture::setData" => calls[i].args[3] = inv.args.image
                    /\ calls[i].fn = "BufferedTexture::setBuffer" =>
                          calls[i].args[2] = inv.args.colorCorrectionBuffer

C7_Witness ==
    /\ CtorReturned /\ Ctor.args.image # NULL
    /\ Ctor.args.imageObj.size[1] = 0
    /\ calls[Ctor.to].fn = "Object2D::scale"
    /\ calls[Ctor.to].args[1][2].cls \in {"inf", "nan"}
    /\ \E k \in ReturnedDraws : invocations[k].args.camera = NULL

\* The f-th frame is drawn by the f-th draw() that ran to its end.
DrawOfFrame(f) ==
    CHOOSE k \in ReturnedDraws :
        Cardinality({j \in ReturnedDraws : j <= k}) = f

\* C8: at every Mesh::draw the matrix uniform is the camera's projection
\* matrix times the transformationMatrix of that same draw() invocation, in
\* that order, never a value left over from an earlier draw.
C8_UniformIsProjectionTimesTransformation ==
    \A f \in 1..Len(frames) :
        LET a == invocations[DrawOfFrame(f)].args
            P == IF a.camera = NULL THEN a.projection ELSE ProjectionOf(a.camera)
            T == a.transformationMatrix
        IN  \A i \in 1..3, j \in 1..3 :
               frames[f].gl.matrixUniform[i][j]
                  = P[i][1] * T[1][j] + P[i][2] * T[2][j] + P[i][3] * T[3][j]

C8_Witness ==
    /\ Len(frames) >= 2
    /\ frames[1].gl.matrixUniform # frames[2].gl.matrixUniform
    /\ invocations[DrawOfFrame(2)].args.camera # NULL
    /\ gl.matrixUniform = frames[2].gl.matrixUniform

\* C9: draw() leaves the Billboard's own state as the constructor left it:
\* the node's transformation, the mesh (a triangle strip of 4 vertices with
\* its buffer and attribute) and the attachments of both textures.
C9_DrawLeavesBillboardUnchanged ==
    [][phase = "constructed" =>
          /\ node' = node
          /\ mesh' = mesh
          /\ texture' = texture
          /\ colorCorrectionTexture' = colorCorrectionTexture
          /\ mesh'.primitive = "TriangleStrip" /\ mesh'.vertexCount = 4
          /\ Len(node'.transformations) = 1]_vars

C9_Witness ==
    /\ Cardinality(ReturnedDraws) >= 2
    /\ mesh.primitive = "TriangleStrip" /\ mesh.vertexCount = 4
    /\ Len(node.transformations) = 1
    /\ node.transformations[1].vector[2] # FOne

\* C10: for an image of positive width and height the constructor's only
\* transformation of the node is one scaling whose x factor is exactly 1;
\* it applies no translation and no rotation.
C10_ScalesOnlyVertically ==
    (CtorReturned /\ Ctor.args.image # NULL
        /\ Ctor.args.imageObj.size[1] > 0 /\ Ctor.args.imageObj.size[2] > 0) =>
       /\ Len(node.transformations) = 1
       /\ node.transformations[1].kind = "scale"
       /\ node.transformations[1].vector[1] = [cls |-> "num", m |-> 8388608, e |-> -23]
       /\ \A i \in CallsOf(Ctor) :
             /\ calls[i].fn \notin {"Object2D::translate", "Object2D::rotate"}
             /\ calls[i].fn = "Object2D::scale" =>
                   calls[i].args[1][1] = [cls |-> "num", m |-> 8388608, e |-> -23]

C10_Witness ==
    /\ CtorReturned /\ Ctor.args.image # NULL
    /\ Ctor.args.imageObj.size = <<3, 1>>
    /\ node.transformations[1].vector[1] = FOne
    /\ node.transformations[1].vector[2] # FOne

====
